---- MODULE Spec2Model ----
(***************************************************************************)
(* A model of the ll2cfg tool (src/bin/ll2cfg.rs) and of the pass-dump     *)
(* splitter (src/bin/passes.rs).                                           *)
(*                                                                         *)
(* Text lines are TLA+ strings; the regular expressions and the string     *)
(* functions of the source are computed character by character.            *)
(* Option<T> is a sequence of length 0 (None) or 1 (Some).                 *)
(***************************************************************************)
EXTENDS Integers, Sequences, FiniteSets, TLC

VARIABLES
    pc,             \* where main is: "scan" | "body" | "render" | "done" | "err" | "panic"
    corpus,         \* which family of input lines the input file is drawn from
    abbr,           \* Args.abbr
    function,       \* Args.function : Option<String>
    consumed,       \* the lines the reader has yielded so far, in order
    eof,            \* the reader has yielded None
    functions,      \* parse_ll_file: functions
    header,         \* parse_ll_file: Some(<<func_name, line>>) while parse_function runs
    blocks,         \* parse_function: blocks
    current_block,  \* parse_function: current_block : Option<BasicBlock>
    output,         \* the payloads of the writeln! calls that reached the sink
    ri,             \* main: index of the next Function the iterator yields
    werr,           \* Some(Len(output)) at the first failed write
    rerr,           \* the reader has yielded an Err
    ppc,            \* where main of passes is: "off" | "start" | "loop" | "done" | "err"
    dump,           \* passes: the lines reader.lines() has yielded so far, in order
    file_count,     \* passes: file_count
    output_file,    \* passes: the number in the name of the file output_file writes to
    output_dir      \* passes: output_dir[n + 1] is the lines of ./output/{basename}_{n}.ll

passes_vars == <<ppc, dump, file_count, output_file, output_dir>>

vars == <<pc, corpus, abbr, function, consumed, eof, functions, header,
          blocks, current_block, output, ri, werr, rerr, passes_vars>>

\* Longest input (in lines) the reader yields before end of file.
MaxLines == 4

None == <<>>
Some(x) == <<x>>

------------------------------------------------------------------------------
(* Characters and string functions of the standard library *)

Ch(s, i) == SubSeq(s, i, i)

Whitespace == {" ", "\t"}

IdentChars ==
    {"a","b","c","d","e","f","g","h","i","j","k","l","m",
     "n","o","p","q","r","s","t","u","v","w","x","y","z",
     "A","B","C","D","E","F","G","H","I","J","K","L","M",
     "N","O","P","Q","R","S","T","U","V","W","X","Y","Z",
     "0","1","2","3","4","5","6","7","8","9","_","."}

\* first index >= i whose character is not whitespace (Len(s)+1 if none): \s*
RECURSIVE SkipWs(_, _)
SkipWs(s, i) ==
    IF i <= Len(s) /\ Ch(s, i) \in Whitespace THEN SkipWs(s, i + 1) ELSE i

\* first index >= i whose character is not in [0-9a-zA-Z_\.]
RECURSIVE SkipIdent(_, _)
SkipIdent(s, i) ==
    IF i <= Len(s) /\ Ch(s, i) \in IdentChars THEN SkipIdent(s, i + 1) ELSE i

\* last index <= i whose character is not whitespace (0 if none)
RECURSIVE BackWs(_, _)
BackWs(s, i) ==
    IF i >= 1 /\ Ch(s, i) \in Whitespace THEN BackWs(s, i - 1) ELSE i

\* last index <= i whose character is whitespace (0 if none)
RECURSIVE BackNonWs(_, _)
BackNonWs(s, i) ==
    IF i >= 1 /\ Ch(s, i) \notin Whitespace THEN BackNonWs(s, i - 1) ELSE i

\* str::starts_with
starts_with(s, p) == Len(s) >= Len(p) /\ SubSeq(s, 1, Len(p)) = p

\* index of the first occurrence of p in s, 0 if there is none
find(s, p) ==
    LET hits == {i \in 1..(Len(s) - Len(p) + 1) : SubSeq(s, i, i + Len(p) - 1) = p}
    IN  IF hits = {} THEN 0 ELSE CHOOSE i \in hits : \A j \in hits : i <= j

\* str::contains
contains(s, p) == find(s, p) # 0

\* str::trim
trim(s) == SubSeq(s, SkipWs(s, 1), BackWs(s, Len(s)))

\* str::split(sep).collect(): "" splits to [""], "a, " to ["a", ""]
RECURSIVE split(_, _)
split(s, sep) ==
    LET i == find(s, sep)
    IN  IF i = 0 THEN <<s>>
        ELSE <<SubSeq(s, 1, i - 1)>> \o split(SubSeq(s, i + Len(sep), Len(s)), sep)

\* str::split_whitespace().last() : Option<&str>
split_whitespace_last(s) ==
    LET e == BackWs(s, Len(s))
    IN  IF e = 0 THEN None ELSE Some(SubSeq(s, BackNonWs(s, e) + 1, e))

\* [String]::join
RECURSIVE join(_, _)
join(v, sep) ==
    IF v = <<>> THEN ""
    ELSE IF Len(v) = 1 THEN v[1]
    ELSE v[1] \o sep \o join(Tail(v), sep)

------------------------------------------------------------------------------
(* The three regular expressions *)

\* ^define\s+.*@([a-zA-Z0-9_\.]+)\s*\(.*\)\s*(.*)\s*\{$
\* the positions of an '@' from which the rest of the pattern matches
define_re_ats(line) ==
    IF /\ starts_with(line, "define")
       /\ Len(line) >= 7 /\ Ch(line, 7) \in Whitespace
       /\ Ch(line, Len(line)) = "{"
    THEN {p \in 8..Len(line) :
            /\ Ch(line, p) = "@"
            /\ LET q == SkipIdent(line, p + 1)
                   r == SkipWs(line, q)
               IN  /\ q > p + 1
                   /\ r <= Len(line) /\ Ch(line, r) = "("
                   /\ \E t \in (r + 1)..(Len(line) - 1) : Ch(line, t) = ")"}
    ELSE {}

\* define_re.captures(&line), group 1: the greedy .* takes the last such '@'
define_re(line) ==
    LET ats == define_re_ats(line)
    IN  IF ats = {} THEN None
        ELSE LET p == CHOOSE a \in ats : \A b \in ats : b <= a
             IN  Some(SubSeq(line, p + 1, SkipIdent(line, p + 1) - 1))

\* (\s*;\s*preds\s*=\s*(.*))?$ from index i: group 3
preds_annotation(line, i) ==
    LET a == SkipWs(line, i)
        b == SkipWs(line, a + 1)
        c == SkipWs(line, b + 5)
        d == SkipWs(line, c + 1)
    IN  IF /\ a <= Len(line) /\ Ch(line, a) = ";"
           /\ b + 4 <= Len(line) /\ SubSeq(line, b, b + 4) = "preds"
           /\ c <= Len(line) /\ Ch(line, c) = "="
        THEN Some(SubSeq(line, d, Len(line)))
        ELSE None

\* ^([0-9a-zA-Z_\.]+):(\s*;\s*preds\s*=\s*(.*))?$
\* block_name_re.captures(&line): Some([name: group 1, preds: group 3])
block_name_re(line) ==
    LET q == SkipIdent(line, 1)
    IN  IF q > 1 /\ q <= Len(line) /\ Ch(line, q) = ":"
        THEN IF q = Len(line)
             THEN Some([name |-> SubSeq(line, 1, q - 1), preds |-> None])
             ELSE IF preds_annotation(line, q + 1) # None
                  THEN Some([name |-> SubSeq(line, 1, q - 1),
                             preds |-> preds_annotation(line, q + 1)])
                  ELSE None
        ELSE None

\* ^\s*br\s+(.*)      jump_re.captures(&line), group 1
jump_re(line) ==
    LET a == SkipWs(line, 1)
    IN  IF /\ a + 2 <= Len(line) /\ SubSeq(line, a, a + 1) = "br"
           /\ Ch(line, a + 2) \in Whitespace
        THEN Some(SubSeq(line, SkipWs(line, a + 2), Len(line)))
        ELSE None

------------------------------------------------------------------------------
(* The graph model *)

\* struct BasicBlock, as parse_function constructs it
BasicBlock(name, predecessors) ==
    [name |-> name, instructions |-> <<>>,
     predecessors |-> predecessors, successors |-> <<>>]

\* struct Function
Function(name, define, blks) ==
    [name |-> name, define |-> define, blocks |-> blks]

------------------------------------------------------------------------------
(* The input: the lines a file of each corpus may hold *)

Corpus ==
    [structure |-> {"define void @f() {", "define void @g() {", "}", "a:",
                    "  ret void", ""},
     labels    |-> {"define void @f() {", "b:  ; preds = %a, %c",
                    "c: ; preds = ", "d: ; No predecessors!", "  unreachable",
                    "  "},
     branches  |-> {"define void @f() {", "a:", "  br label %X",
                    "  br i1 %c, label %X, label %Y", "  br i1 %c",
                    "  switch i32 %v, label %X [ i32 0, label %Y ]"}]

Lines == Corpus[corpus]

------------------------------------------------------------------------------
(* parse_function *)

\* a label line that forgets to push the block it closes
push_current_forgotten(blks, cur) == blks

\* if let Some(block) = current_block { blocks.push(block.clone()); }
push_current(blks, cur) ==
    IF cur # None THEN Append(blks, cur[1]) ELSE blks

\* a return that forgets the block still open
finish_blocks_drops_open(blks, cur) == blks

\* after the loop: the open block is pushed and blocks is returned
finish_blocks(blks, cur) ==
    IF cur # None THEN Append(blks, cur[1]) ELSE blks

\* caps.get(3) ... split(", ") ... unwrap_or(vec![])
predecessors_of(caps) ==
    IF caps.preds = None THEN <<>> ELSE split(caps.preds[1], ", ")

\* .filter(|s| s.contains("label ")).for_each(|s| push(s.split_whitespace().last().unwrap()))
RECURSIVE label_targets(_)
label_targets(segments) ==
    IF segments = <<>> THEN <<>>
    ELSE (IF contains(segments[1], "label ")
          THEN split_whitespace_last(segments[1])
          ELSE <<>>) \o label_targets(Tail(segments))

\* a branch that keeps only its first labelled operand
jump_targets_first(line) ==
    IF jump_re(line) = None THEN <<>>
    ELSE LET t == label_targets(split(jump_re(line)[1], ","))
         IN  IF t = <<>> THEN <<>> ELSE <<t[1]>>

\* the names one line appends to current_block.successors
jump_targets(line) ==
    IF jump_re(line) = None THEN <<>>
    ELSE label_targets(split(jump_re(line)[1], ","))

\* the block opened when an instruction arrives and none is open
implicit_block == BasicBlock("%1", <<>>)

\* a test that forgets to trim
keeps_nonempty(line) == line # ""

\* line.trim() != "": the line is pushed to the instructions
keeps_instruction(line) == trim(line) # ""

\* an else branch that stores the instruction trimmed instead of verbatim
with_instruction_trimmed(cur, line) ==
    LET b == IF cur = None THEN implicit_block ELSE cur[1]
    IN  Some([b EXCEPT
                !.instructions = IF keeps_instruction(line) THEN Append(@, trim(line)) ELSE @,
                !.successors   = @ \o jump_targets(line)])

\* the else branch of the loop body: an instruction inside a block
with_instruction(cur, line) ==
    LET b == IF cur = None THEN implicit_block ELSE cur[1]
    IN  Some([b EXCEPT
                !.instructions = IF keeps_instruction(line) THEN Append(@, line) ELSE @,
                !.successors   = @ \o jump_targets(line)])

\* a body that also ends at the next header-shaped line
is_close_or_define(line) == line = "}" \/ define_re(line) # None

\* the line ends the body
is_close(line) == line = "}"

------------------------------------------------------------------------------
(* dump_cfg *)

\* let block_name = if block.name == "" { "%1" } else { &format!("%{}", &block.name) }
block_name(block) == IF block.name = "" THEN "%1" ELSE "%" \o block.name

\* an edge labelled with its source instead of its target
edge_line_labelled_by_source(src_name, bn) ==
    "\t" \o src_name \o " -->|" \o src_name \o "| " \o bn

\* writeln!(output, "\t{} -->|{}| {}", src_name, block_name, block_name)
edge_line(src_name, bn) == "\t" \o src_name \o " -->|" \o bn \o "| " \o bn

\* edges written from the last predecessor to the first
RECURSIVE edge_lines_reversed(_, _)
edge_lines_reversed(preds, bn) ==
    IF preds = <<>> THEN <<>>
    ELSE edge_lines_reversed(Tail(preds), bn) \o <<edge_line(preds[1], bn)>>

RECURSIVE edge_lines(_, _)
edge_lines(preds, bn) ==
    IF preds = <<>> THEN <<>>
    ELSE <<edge_line(preds[1], bn)>> \o edge_lines(Tail(preds), bn)

\* writeln!(output, "{}[\"{}\"]", block_name, block_label)
node_line(block) ==
    block_name(block) \o "[\"" \o join(block.instructions, "\n") \o "\"]"

\* a test that looks at every instruction instead of the last
any_starts_with(block, kw) ==
    \E i \in 1..Len(block.instructions) :
        starts_with(trim(block.instructions[i]), kw)

\* block.instructions.last().iter().any(|s| s.trim().starts_with(kw))
last_starts_with(block, kw) ==
    /\ block.instructions # <<>>
    /\ starts_with(trim(block.instructions[Len(block.instructions)]), kw)

is_return(block) == last_starts_with(block, "ret ")
is_unreachable(block) == last_starts_with(block, "unreachable")

ret_style(block) == "style " \o block_name(block) \o " stroke:#0f0"
unreachable_style(block) == "style " \o block_name(block) \o " stroke:#f00"

\* a renderer that also draws an edge to every successor
RECURSIVE successor_edges(_, _)
successor_edges(succs, bn) ==
    IF succs = <<>> THEN <<>>
    ELSE <<edge_line(bn, succs[1])>> \o successor_edges(Tail(succs), bn)

block_section_with_successors(block, ab) ==
    edge_lines(block.predecessors, block_name(block))
    \o successor_edges(block.successors, block_name(block))
    \o (IF ab = FALSE THEN <<node_line(block)>> ELSE <<>>)
    \o (IF is_return(block) THEN <<ret_style(block)>> ELSE <<>>)
    \o (IF is_unreachable(block) THEN <<unreachable_style(block)>> ELSE <<>>)

\* the writeln! calls of one iteration of function.blocks.iter().for_each
block_section(block, ab) ==
    edge_lines(block.predecessors, block_name(block))
    \o (IF ab = FALSE THEN <<node_line(block)>> ELSE <<>>)
    \o (IF is_return(block) THEN <<ret_style(block)>> ELSE <<>>)
    \o (IF is_unreachable(block) THEN <<unreachable_style(block)>> ELSE <<>>)

\* the sections written from the last block to the first
RECURSIVE block_sections_reversed(_, _)
block_sections_reversed(blks, ab) ==
    IF blks = <<>> THEN <<>>
    ELSE block_sections_reversed(Tail(blks), ab) \o block_section(blks[1], ab)

RECURSIVE block_sections(_, _)
block_sections(blks, ab) ==
    IF blks = <<>> THEN <<>>
    ELSE block_section(blks[1], ab) \o block_sections(Tail(blks), ab)

\* The three backquotes of a Markdown fence. A TLA+ string cannot hold a
\* backquote: the apostrophe, which no line of the model holds, stands for it.
fence == "'''"

\* the payloads of all the writeln! calls of dump_cfg, in order
dump_cfg(f, ab) ==
    <<fence \o "mermaid", "flowchart TD", "%% function " \o f.name>>
    \o block_sections(f.blocks, ab)
    \o <<fence>>

\* v without its k-th element (v itself when k = 0)
without(v, k) ==
    [i \in 1..(Len(v) - (IF k = 0 THEN 0 ELSE 1)) |-> IF k = 0 \/ i < k THEN v[i] ELSE v[i + 1]]

------------------------------------------------------------------------------
(* The program: main, parse_ll_file, parse_function, dump_cfg *)

Init ==
    /\ pc = "scan"
    /\ corpus \in DOMAIN Corpus
    /\ abbr \in BOOLEAN
    /\ function \in {None, Some("f")}
    /\ consumed = <<>>
    /\ eof = FALSE
    /\ functions = <<>>
    /\ header = None
    /\ blocks = <<>>
    /\ current_block = None
    /\ output = <<>>
    /\ ri = 1
    /\ werr = None
    /\ rerr = FALSE
    /\ ppc = "off"
    /\ dump = <<>>
    /\ file_count = 0
    /\ output_file = None
    /\ output_dir = <<>>

\* functions.push(Function { name, define, blocks }) once parse_function returns
push_function(fns, hdr, blks) ==
    Append(fns, Function(hdr[1], hdr[2], blks))

\* parse_ll_file: one turn of `while let Some(line) = lines.next()`, line read
ScanLine(line) ==
    /\ pc = "scan" /\ ~eof /\ Len(consumed) < MaxLines
    /\ consumed' = Append(consumed, line)
    /\ IF define_re(line) # None
       THEN /\ header' = Some(<<define_re(line)[1], line>>)
            /\ pc' = "body"
       ELSE UNCHANGED <<header, pc>>
    /\ UNCHANGED <<corpus, abbr, function, eof, functions, blocks,
                   current_block, output, ri, werr, rerr>>
    /\ UNCHANGED passes_vars

\* parse_ll_file: `let line = line?;` on a read failure; main's `?` returns it
ScanReadError ==
    /\ pc = "scan" /\ ~eof
    /\ rerr' = TRUE
    /\ pc' = "err"
    /\ UNCHANGED <<corpus, abbr, function, consumed, eof, functions, header,
                   blocks, current_block, output, ri, werr>>
    /\ UNCHANGED passes_vars

\* parse_ll_file: lines.next() is None; Ok(functions); main goes on to render
ScanEof ==
    /\ pc = "scan"
    /\ eof' = TRUE
    /\ pc' = "render"
    /\ UNCHANGED <<corpus, abbr, function, consumed, functions, header,
                   blocks, current_block, output, ri, werr, rerr>>
    /\ UNCHANGED passes_vars

\* parse_function returns (break, or the loop ends) and parse_ll_file pushes
ReturnBlocks ==
    /\ functions' = push_function(functions, header[1],
                                  finish_blocks(blocks, current_block))
    /\ header' = None
    /\ blocks' = <<>>
    /\ current_block' = None
    /\ pc' = "scan"

\* parse_function: one turn of `while let Some(line) = lines.next()`, line read
BodyLine(line) ==
    /\ pc = "body" /\ Len(consumed) < MaxLines
    /\ consumed' = Append(consumed, line)
    /\ IF block_name_re(line) # None
       THEN /\ blocks' = push_current(blocks, current_block)
            /\ current_block' =
                 Some(BasicBlock(block_name_re(line)[1].name,
                                 predecessors_of(block_name_re(line)[1])))
            /\ UNCHANGED <<functions, header, pc>>
       ELSE IF is_close(line)
       THEN ReturnBlocks
       ELSE /\ current_block' = with_instruction(current_block, line)
            /\ UNCHANGED <<functions, header, blocks, pc>>
    /\ UNCHANGED <<corpus, abbr, function, eof, output, ri, werr, rerr>>
    /\ UNCHANGED passes_vars

\* parse_function: `let line = line.unwrap();` on a read failure
BodyReadError ==
    /\ pc = "body"
    /\ rerr' = TRUE
    /\ pc' = "panic"
    /\ UNCHANGED <<corpus, abbr, function, consumed, eof, functions, header,
                   blocks, current_block, output, ri, werr>>
    /\ UNCHANGED passes_vars

\* parse_function: lines.next() is None inside a body
BodyEof ==
    /\ pc = "body"
    /\ eof' = TRUE
    /\ ReturnBlocks
    /\ UNCHANGED <<corpus, abbr, function, consumed, output, ri, werr, rerr>>
    /\ UNCHANGED passes_vars

\* a main that ignores the filter
selected_any(f) == TRUE

\* main: the closure's test on the Function the iterator yields
selected(f) == IF function = None THEN TRUE ELSE f.name = function[1]

\* main: one call of dump_cfg. Every writeln! result but the last is dropped
\* (`_ =`); the last is unwrapped. At most one write of a call fails: the k-th.
DumpCfg ==
    /\ pc = "render" /\ ri <= Len(functions) /\ selected(functions[ri])
    /\ LET w == dump_cfg(functions[ri], abbr)
       IN  \E k \in 0..Len(w) :
             /\ output' = output \o without(w, k)
             /\ werr' = IF werr = None /\ k > 0
                        THEN Some(Len(output) + k - 1) ELSE werr
             /\ pc' = IF k = Len(w) THEN "panic" ELSE "render"
    /\ ri' = ri + 1
    /\ UNCHANGED <<corpus, abbr, function, consumed, eof, functions, header,
                   blocks, current_block, rerr>>
    /\ UNCHANGED passes_vars

\* main: the filter drops a Function whose name is not the one asked for
SkipFunction ==
    /\ pc = "render" /\ ri <= Len(functions) /\ ~selected(functions[ri])
    /\ ri' = ri + 1
    /\ UNCHANGED <<pc, corpus, abbr, function, consumed, eof, functions, header,
                   blocks, current_block, output, werr, rerr>>
    /\ UNCHANGED passes_vars

\* main: Ok(())
MainOk ==
    /\ pc = "render" /\ ri > Len(functions)
    /\ pc' = "done"
    /\ UNCHANGED <<corpus, abbr, function, consumed, eof, functions, header,
                   blocks, current_block, output, ri, werr, rerr>>
    /\ UNCHANGED passes_vars

Next ==
    \/ \E line \in Lines : ScanLine(line)
    \/ ScanReadError
    \/ ScanEof
    \/ \E line \in Lines : BodyLine(line)
    \/ BodyReadError
    \/ BodyEof
    \/ DumpCfg
    \/ SkipFunction
    \/ MainOk

Spec == Init /\ [][Next]_vars

-------------------------------------------------------------------------------
(* passes.rs: the stage splitter *)

\* a test that only sees the marker at the start of the line
is_boundary_at_start(line) == starts_with(line, " Dump After ")

\* line.contains(" Dump After ")
is_boundary(line) == contains(line, " Dump After ")

\* File::create(format!("./output/{basename}_{file_count}.ll")): the file of
\* that number exists and is empty
create(dir, n) ==
    IF n + 1 <= Len(dir) THEN [dir EXCEPT ![n + 1] = <<>>] ELSE Append(dir, <<>>)

\* writeln!(output_file, "{}", line)
writeln(dir, n, line) == [dir EXCEPT ![n + 1] = Append(@, line)]

\* lines a multi-stage dump log is made of
DumpLines ==
    {"; *** IR Dump After A ***", "; *** IR Dump Before B ***",
     "define void @f() {", " Dump After ", "Dump After"}

ll2cfg_vars == <<pc, corpus, abbr, function, consumed, eof, functions, header,
                 blocks, current_block, output, ri, werr, rerr>>

\* the input file is open, nothing is read and no output file exists yet
InitPasses ==
    /\ ppc = "start"
    /\ dump = <<>>
    /\ file_count = 0
    /\ output_file = None
    /\ output_dir = <<>>
    /\ pc = "done"
    /\ corpus = "structure"
    /\ abbr = FALSE
    /\ function = None
    /\ consumed = <<>>
    /\ eof = FALSE
    /\ functions = <<>>
    /\ header = None
    /\ blocks = <<>>
    /\ current_block = None
    /\ output = <<>>
    /\ ri = 1
    /\ werr = None
    /\ rerr = FALSE

\* let mut file_count = 0; let mut output_file = File::create(..)?;
CreateFirst ==
    /\ ppc = "start"
    /\ output_dir' = create(output_dir, file_count)
    /\ output_file' = Some(file_count)
    /\ ppc' = "loop"
    /\ UNCHANGED <<dump, file_count, ll2cfg_vars>>

\* the first File::create fails: main returns the Err
CreateFirstError ==
    /\ ppc = "start"
    /\ ppc' = "err"
    /\ UNCHANGED <<dump, file_count, output_file, output_dir, ll2cfg_vars>>

\* one turn of `for line in reader.lines()` in which nothing fails
SplitLine(line) ==
    /\ ppc = "loop" /\ Len(dump) < MaxLines
    /\ dump' = Append(dump, line)
    /\ IF is_boundary(line)
       THEN /\ file_count' = file_count + 1
            /\ output_file' = Some(file_count + 1)
            /\ output_dir' = writeln(create(output_dir, file_count + 1),
                                     file_count + 1, line)
       ELSE /\ output_dir' = writeln(output_dir, output_file[1], line)
            /\ UNCHANGED <<file_count, output_file>>
    /\ UNCHANGED <<ppc, ll2cfg_vars>>

\* `let line = line?;` on a read failure
SplitReadError ==
    /\ ppc = "loop"
    /\ ppc' = "err"
    /\ UNCHANGED <<dump, file_count, output_file, output_dir, ll2cfg_vars>>

\* the File::create of a boundary line fails: file_count is already counted
SplitCreateError(line) ==
    /\ ppc = "loop" /\ Len(dump) < MaxLines
    /\ is_boundary(line)
    /\ dump' = Append(dump, line)
    /\ file_count' = file_count + 1
    /\ ppc' = "err"
    /\ UNCHANGED <<output_file, output_dir, ll2cfg_vars>>

\* `writeln!(output_file, "{}", line)?` fails, after the switch to the next
\* file when the line is a boundary
SplitWriteError(line) ==
    /\ ppc = "loop" /\ Len(dump) < MaxLines
    /\ dump' = Append(dump, line)
    /\ IF is_boundary(line)
       THEN /\ file_count' = file_count + 1
            /\ output_file' = Some(file_count + 1)
            /\ output_dir' = create(output_dir, file_count + 1)
       ELSE UNCHANGED <<file_count, output_file, output_dir>>
    /\ ppc' = "err"
    /\ UNCHANGED ll2cfg_vars

\* reader.lines() is exhausted: Ok(())
SplitEof ==
    /\ ppc = "loop"
    /\ ppc' = "done"
    /\ UNCHANGED <<dump, file_count, output_file, output_dir, ll2cfg_vars>>

NextPasses ==
    \/ CreateFirst
    \/ CreateFirstError
    \/ \E line \in DumpLines : SplitLine(line)
    \/ SplitReadError
    \/ \E line \in DumpLines : SplitCreateError(line)
    \/ \E line \in DumpLines : SplitWriteError(line)
    \/ SplitEof

SpecPasses == InitPasses /\ [][NextPasses]_vars

------------------------------------------------------------------------------
(* What the input says, read off the consumed lines alone *)

IsHeaderLine(line) == define_re(line) # None
IsLabelLine(line) == block_name_re(line) # None

\* identifier characters immediately followed by ':' at the start of the line
LabelPrefix(line) ==
    LET q == SkipIdent(line, 1)
    IN  IF q > 1 /\ q <= Len(line) /\ Ch(line, q) = ":"
        THEN Some(SubSeq(line, 1, q - 1)) ELSE None

\* the header-shaped lines of ls read while no body is open (open: a body is)
RECURSIVE TopHeaders(_, _)
TopHeaders(ls, open) ==
    IF ls = <<>> THEN <<>>
    ELSE IF open THEN TopHeaders(Tail(ls), ls[1] # "}")
    ELSE IF IsHeaderLine(ls[1]) THEN <<ls[1]>> \o TopHeaders(Tail(ls), TRUE)
    ELSE TopHeaders(Tail(ls), FALSE)

\* the lines of the body that is open at the end of ls (acc: those so far)
RECURSIVE OpenBody(_, _, _)
OpenBody(ls, open, acc) ==
    IF ls = <<>> THEN acc
    ELSE IF open
         THEN IF ls[1] = "}" THEN OpenBody(Tail(ls), FALSE, <<>>)
              ELSE OpenBody(Tail(ls), TRUE, Append(acc, ls[1]))
    ELSE OpenBody(Tail(ls), IsHeaderLine(ls[1]), <<>>)

BodyLines == OpenBody(consumed, FALSE, <<>>)

Defines == [i \in 1..Len(functions) |-> functions[i].define]

HeaderShaped == {i \in 1..Len(consumed) : IsHeaderLine(consumed[i])}

------------------------------------------------------------------------------
(* C1: parse_ll_file holds exactly one Function record, in source order,    *)
(* per header-shaped line read while no body is open (the body being read  *)
(* still pending in `header`); a header-shaped line inside an open body    *)
(* starts no record.                                                       *)
C1_OneFunctionPerTopLevelHeader ==
    IF header = None
    THEN Defines = TopHeaders(consumed, FALSE)
    ELSE Defines \o <<header[1][2]>> = TopHeaders(consumed, FALSE)

\* two records returned from an input with three header-shaped lines
C1_Witness ==
    /\ pc = "done"
    /\ Len(functions) = 2
    /\ Cardinality(HeaderShaped) = 3

(* C2 as claimed: a block opened by instruction text before the first      *)
(* label has the empty name and is displayed as %1.                        *)
C2_ImplicitBlockHasEmptyName ==
    (/\ pc = "body"
     /\ current_block # None
     /\ \A i \in 1..Len(BodyLines) : ~IsLabelLine(BodyLines[i]))
    => /\ current_block[1].name = ""
       /\ block_name(current_block[1]) = "%1"

(* C3 as claimed: a body line that starts with a label (identifier then    *)
(* ':') opens a new, empty block of that name even when its annotation is  *)
(* unparsable, and then the predecessor list is empty.                     *)
C3_LabelWithBadAnnotationOpensBlock ==
    (/\ pc = "body"
     /\ BodyLines # <<>>
     /\ LabelPrefix(BodyLines[Len(BodyLines)]) # None)
    => /\ current_block # None
       /\ current_block[1].name = LabelPrefix(BodyLines[Len(BodyLines)])[1]
       /\ current_block[1].instructions = <<>>
       /\ ~IsLabelLine(BodyLines[Len(BodyLines)])
             => current_block[1].predecessors = <<>>

(* C4 as claimed: once a read has failed, main has returned the error     *)
(* (no panic, nothing dropped).                                            *)
C4_ReadFailureIsReturned == rerr => pc = "err"

(* C5 as claimed: once a write has failed, main has returned the error and *)
(* nothing was written after the failed write.                             *)
C5_WriteFailureAborts ==
    werr # None => (pc = "err" /\ Len(output) = werr[1])

(* C6: when the input ends inside a function body, parse_function returns  *)
(* every block finalized so far followed by the block still open, the      *)
(* Function record is pushed, no error is raised, and parse_ll_file then   *)
(* returns the records unchanged.                                          *)
C6_TruncatedBodyIsRecorded ==
    /\ [][(pc = "body" /\ ~eof /\ eof') =>
            /\ pc' = "scan" /\ ~rerr'
            /\ Len(functions') = Len(functions) + 1
            /\ SubSeq(functions', 1, Len(functions)) = functions
            /\ functions'[Len(functions')].name = header[1][1]
            /\ functions'[Len(functions')].blocks = blocks \o current_block]_vars
    /\ [][(pc = "scan" /\ eof) => (pc' = "render" /\ functions' = functions)]_vars

\* a run that ended in a body with no closing line and returned two blocks
C6_Witness ==
    /\ pc = "done" /\ functions # <<>>
    /\ \A i \in 1..Len(consumed) : consumed[i] # "}"
    /\ Len(functions[Len(functions)].blocks) >= 2
    /\ functions[Len(functions)].blocks[2].instructions # <<>>

\* the successors of the open block, none when no block is open
SuccessorsOf(cur) == IF cur = None THEN <<>> ELSE cur[1].successors

\* this step reads `line` inside a function body
ReadsInBody(line) == pc = "body" /\ consumed' = Append(consumed, line)

(* C7: in a body, `br label %X` appends exactly <<"%X">> to the open       *)
(* block's successors and `br i1 %c, label %X, label %Y` exactly           *)
(* <<"%X", "%Y">>; what was there stays, in order, duplicates included;    *)
(* a br line with no `label ` operand appends nothing.                     *)
C7_BranchSuccessors ==
    [][/\ ReadsInBody("  br label %X") =>
            SuccessorsOf(current_block') = SuccessorsOf(current_block) \o <<"%X">>
       /\ ReadsInBody("  br i1 %c, label %X, label %Y") =>
            SuccessorsOf(current_block') =
                SuccessorsOf(current_block) \o <<"%X", "%Y">>
       /\ \A line \in Lines :
            (ReadsInBody(line) /\ jump_re(line) # None /\ ~contains(line, "label "))
            => SuccessorsOf(current_block') = SuccessorsOf(current_block)]_vars

\* a duplicate kept, order kept, and a br without labels read last
C7_Witness ==
    /\ pc = "body" /\ current_block # None
    /\ consumed[Len(consumed)] = "  br i1 %c"
    /\ current_block[1].successors = <<"%X", "%X", "%Y">>

(* C8 as claimed: a multi-way branch (switch) read in a body appends one   *)
(* successor per labelled arm, in declaration order.                       *)
C8_MultiWayBranchSuccessors ==
    [][ReadsInBody("  switch i32 %v, label %X [ i32 0, label %Y ]") =>
         SuccessorsOf(current_block') =
             SuccessorsOf(current_block) \o <<"%X", "%Y">>]_vars

\* the line draws an edge into node t
IsEdgeTo(line, t) ==
    /\ contains(line, " -->|")
    /\ Len(line) >= Len(t)
    /\ SubSeq(line, Len(line) - Len(t) + 1, Len(line)) = t

\* the successor targets of f that name no block of f
UndefinedTargets(f) ==
    {t \in UNION {{b.successors[i] : i \in 1..Len(b.successors)} :
                    b \in {f.blocks[j] : j \in 1..Len(f.blocks)}} :
        \A j \in 1..Len(f.blocks) :
            f.blocks[j].name # t /\ block_name(f.blocks[j]) # t}

Rendered == {functions[i] : i \in {j \in 1..Len(functions) : selected(functions[j])}}

(* C9 as claimed: when the run has ended without a failed write, every     *)
(* successor target of a rendered function that names no block of it has   *)
(* an edge line into it in the output.                                     *)
C9_UndefinedSuccessorIsDrawn ==
    (pc = "done" /\ werr = None) =>
        \A f \in Rendered : \A t \in UndefinedTargets(f) :
            \E o \in 1..Len(output) : IsEdgeTo(output[o], t)

\* the number of predecessors entries of the blocks bs
RECURSIVE PredecessorCount(_)
PredecessorCount(bs) ==
    IF bs = <<>> THEN 0 ELSE Len(bs[1].predecessors) + PredecessorCount(Tail(bs))

(* C9 amended: a successor target that names no block of the function is   *)
(* accepted (the record is returned and handed to the renderer) but        *)
(* dump_cfg writes no edge line into it; the edge lines of a diagram are   *)
(* one per predecessors entry. Stated of every record parse_ll_file has    *)
(* returned, when main starts to render (the records do not change later). *)
C9_UndefinedSuccessorIsNotDrawn ==
    (pc = "render" /\ ri = 1) =>
        \A i \in 1..Len(functions) :
            LET w == dump_cfg(functions[i], abbr)
            IN  /\ Cardinality({o \in 1..Len(w) : contains(w[o], " -->|")})
                     = PredecessorCount(functions[i].blocks)
                /\ \A t \in UndefinedTargets(functions[i]) :
                     \A o \in 1..Len(w) : ~IsEdgeTo(w[o], t)

\* a diagram was written for a function that has an undefined target
C9_Witness ==
    /\ pc = "done" /\ werr = None /\ output # <<>>
    /\ \E f \in Rendered : "%X" \in UndefinedTargets(f)

\* every block the parser holds: returned, finalized or open
AllBlocks ==
    UNION {{functions[i].blocks[j] : j \in 1..Len(functions[i].blocks)} :
             i \in 1..Len(functions)}
    \cup {blocks[j] : j \in 1..Len(blocks)}
    \cup {current_block[j] : j \in 1..Len(current_block)}

IsBlank(s) == \A i \in 1..Len(s) : Ch(s, i) \in Whitespace

(* C10: no block's instructions holds an empty or whitespace-only line.    *)
C10_NoBlankInstruction ==
    \A b \in AllBlocks : \A i \in 1..Len(b.instructions) :
        ~IsBlank(b.instructions[i])

\* a whitespace-only line was read into a block that holds an instruction
C10_Witness ==
    /\ pc = "body" /\ Len(BodyLines) >= 2
    /\ BodyLines[Len(BodyLines)] = "  "
    /\ current_block # None /\ current_block[1].instructions # <<>>

\* the lines of w that draw an edge, in order
RECURSIVE EdgeLinesOf(_)
EdgeLinesOf(w) ==
    IF w = <<>> THEN <<>>
    ELSE (IF contains(w[1], " -->|") THEN <<w[1]>> ELSE <<>>) \o EdgeLinesOf(Tail(w))

\* <<predecessor, block>> for every predecessors entry of bs, in list order
RECURSIVE PredecessorPairs(_)
PredecessorPairs(bs) ==
    IF bs = <<>> THEN <<>>
    ELSE [i \in 1..Len(bs[1].predecessors) |-> <<bs[1].predecessors[i], bs[1]>>]
         \o PredecessorPairs(Tail(bs))

(* C11: the edge lines dump_cfg writes for a Function are, in order, one   *)
(* per predecessors entry of its blocks (block by block, entry by entry):  *)
(* each starts with a tab and that entry and runs into that block's node;  *)
(* there is no other edge line. Stated of every record parse_ll_file has   *)
(* returned, when main starts to render.                                   *)
C11_OneEdgeLinePerPredecessor ==
    (pc = "render" /\ ri = 1) =>
        \A i \in 1..Len(functions) :
            LET e == EdgeLinesOf(dump_cfg(functions[i], abbr))
                x == PredecessorPairs(functions[i].blocks)
            IN  /\ Len(e) = Len(x)
                /\ \A k \in 1..Len(x) :
                     /\ starts_with(e[k], "\t" \o x[k][1] \o " -->|")
                     /\ IsEdgeTo(e[k], block_name(x[k][2]))

\* the two edges of `b:  ; preds = %a, %c` reached the output, %a first
C11_Witness ==
    /\ pc = "done" /\ werr = None
    /\ \E o \in 1..(Len(output) - 1) :
         /\ output[o] = "\t%a -->|%b| %b"
         /\ output[o + 1] = "\t%c -->|%b| %b"

\* the display name of a name, as the claim gives it
DisplayName(n) == IF n = "" THEN "%1" ELSE "%" \o n

(* C12 as claimed: every edge line written for a predecessor p of block B  *)
(* runs from the display name of p to the display name of B, labelled with *)
(* the display name of B.                                                  *)
C12_EdgeFromDisplayNameOfPredecessor ==
    (pc = "render" /\ ri = 1) =>
        \A i \in 1..Len(functions) :
            LET e == EdgeLinesOf(dump_cfg(functions[i], abbr))
                x == PredecessorPairs(functions[i].blocks)
            IN  \A k \in 1..Len(x) :
                    e[k] = "\t" \o DisplayName(x[k][1]) \o " -->|"
                           \o DisplayName(x[k][2].name) \o "| "
                           \o DisplayName(x[k][2].name)

(* C12 amended: every edge line written for a predecessor p of block B     *)
(* runs from p as the predecessors list holds it (the annotation's text,   *)
(* such as %a, with nothing prefixed) to the display name of B, labelled   *)
(* with the display name of B.                                             *)
C12_EdgeFromPredecessorText ==
    (pc = "render" /\ ri = 1) =>
        \A i \in 1..Len(functions) :
            LET e == EdgeLinesOf(dump_cfg(functions[i], abbr))
                x == PredecessorPairs(functions[i].blocks)
            IN  \A k \in 1..Len(x) :
                    e[k] = "\t" \o x[k][1] \o " -->|"
                           \o DisplayName(x[k][2].name) \o "| "
                           \o DisplayName(x[k][2].name)

\* an edge line written with the predecessor text as it stands, here empty
C12_Witness ==
    /\ pc = "done" /\ werr = None
    /\ \E o \in 1..Len(output) : output[o] = "\t -->|%c| %c"

\* the diagrams of the records of fs named `name`, one after the other
RECURSIVE DiagramsOf(_, _)
DiagramsOf(fs, name) ==
    IF fs = <<>> THEN <<>>
    ELSE (IF fs[1].name = name THEN dump_cfg(fs[1], abbr) ELSE <<>>)
         \o DiagramsOf(Tail(fs), name)

(* C13: with a function-name filter and no failed write, what has been     *)
(* written once the iterator has passed ri - 1 records is the diagrams of   *)
(* exactly those of them whose name equals the filter, in source order; at *)
(* the end of a run in which no record has that name the output is empty   *)
(* and main returns Ok.                                                    *)
C13_FilterSelectsByName ==
    (pc \in {"render", "done"} /\ werr = None /\ function # None) =>
        /\ output = DiagramsOf(SubSeq(functions, 1, ri - 1), function[1])
        /\ (ri > Len(functions)
            /\ \A i \in 1..Len(functions) : functions[i].name # function[1])
           => output = <<>>

\* g then f were parsed and only f's diagram was written
C13_Witness ==
    /\ pc = "done" /\ werr = None /\ function = Some("f")
    /\ Len(functions) = 2
    /\ functions[1].name = "g" /\ functions[2].name = "f"
    /\ output = dump_cfg(functions[2], abbr)

\* g was parsed, the filter names f: nothing written, main returned Ok
C13_WitnessNoMatch ==
    /\ pc = "done" /\ function = Some("f")
    /\ functions # <<>> /\ output = <<>>

\* the line is part of the section of a block displayed as d: an edge into
\* it, its node definition or one of its style lines
BelongsTo(line, d) ==
    \/ IsEdgeTo(line, d)
    \/ starts_with(line, d \o "[\"")
    \/ starts_with(line, "style " \o d \o " ")

\* lines o..last of w can be given to blocks prev..Len(bs), never going back
RECURSIVE InBlockOrder(_, _, _, _, _)
InBlockOrder(w, bs, o, last, prev) ==
    IF o > last THEN TRUE
    ELSE LET c == {j \in prev..Len(bs) : BelongsTo(w[o], DisplayName(bs[j].name))}
         IN  /\ c # {}
             /\ InBlockOrder(w, bs, o + 1, last,
                             CHOOSE j \in c : \A k \in c : j <= k)

\* the index in w of the node definition of the block displayed as d, or 0
NodeAt(w, d) ==
    LET at == {o \in 1..Len(w) : starts_with(w[o], d \o "[\"")}
    IN  IF at = {} THEN 0 ELSE CHOOSE o \in at : \A k \in at : o <= k

(* C14: the lines dump_cfg writes for a Function are the three opening     *)
(* lines, then lines that each belong to a block's section with the blocks *)
(* taken in list order (no line of a later block before a line of an       *)
(* earlier one), then the closing fence; when instructions are shown the   *)
(* node definitions of blocks whose names occur once come in list order.   *)
C14_SectionsInBlockOrder ==
    (pc = "render" /\ ri = 1) =>
        \A i \in 1..Len(functions) :
            LET w  == dump_cfg(functions[i], abbr)
                bs == functions[i].blocks
            IN  /\ Len(w) >= 4
                /\ w[1] = fence \o "mermaid" /\ w[2] = "flowchart TD"
                /\ w[3] = "%% function " \o functions[i].name
                /\ w[Len(w)] = fence
                /\ InBlockOrder(w, bs, 4, Len(w) - 1, 1)
                /\ ~abbr =>
                     \A a, b \in 1..Len(bs) :
                        (a < b /\ \A k \in 1..Len(bs) :
                                    /\ bs[k].name = bs[a].name => k = a
                                    /\ bs[k].name = bs[b].name => k = b) =>
                            /\ NodeAt(w, DisplayName(bs[a].name)) > 3
                            /\ NodeAt(w, DisplayName(bs[a].name))
                                 < NodeAt(w, DisplayName(bs[b].name))

\* the whole diagram of blocks b then c reached the output in that order
C14_Witness ==
    /\ pc = "done" /\ werr = None
    /\ Len(output) = 9
    /\ output[4] = "\t%a -->|%b| %b"
    /\ output[6] = "%b[\"\"]"
    /\ output[7] = "\t -->|%c| %c"
    /\ output[8] = "%c[\"\"]"
    /\ output[9] = fence

\* the last instruction of b, trimmed, begins with kw (FALSE when b has none)
EndsWith(b, kw) ==
    /\ b.instructions # <<>>
    /\ LET l == b.instructions[Len(b.instructions)]
           t == SubSeq(l, SkipWs(l, 1), BackWs(l, Len(l)))
       IN  Len(t) >= Len(kw) /\ SubSeq(t, 1, Len(kw)) = kw

\* how many lines of w are exactly `line`
CountOf(w, line) == Cardinality({o \in 1..Len(w) : w[o] = line})

(* C15: with or without the abbreviated flag, dump_cfg writes for a block   *)
(* the line `style <display name> stroke:#0f0` exactly when the block's    *)
(* last instruction, trimmed, begins with `ret ` and the line              *)
(* `style <display name> stroke:#f00` exactly when it begins with          *)
(* `unreachable` (counted per display name, as two blocks may share one);  *)
(* a block with no instructions gets neither, no block gets both, and      *)
(* there is no other style line.                                           *)
C15_StyleFollowsLastInstruction ==
    (pc = "render" /\ ri = 1) =>
        \A i \in 1..Len(functions) : \A ab \in BOOLEAN :
            LET w  == dump_cfg(functions[i], ab)
                bs == functions[i].blocks
                Named(d) == {j \in 1..Len(bs) : DisplayName(bs[j].name) = d}
                Rets == {j \in 1..Len(bs) : EndsWith(bs[j], "ret ")}
                Unrs == {j \in 1..Len(bs) : EndsWith(bs[j], "unreachable")}
            IN  /\ \A k \in 1..Len(bs) :
                     LET d == DisplayName(bs[k].name)
                     IN  /\ CountOf(w, "style " \o d \o " stroke:#0f0")
                              = Cardinality(Named(d) \cap Rets)
                         /\ CountOf(w, "style " \o d \o " stroke:#f00")
                              = Cardinality(Named(d) \cap Unrs)
                /\ Rets \cap Unrs = {}
                /\ Cardinality({o \in 1..Len(w) : starts_with(w[o], "style ")})
                     = Cardinality(Rets) + Cardinality(Unrs)

\* abbreviated output (no node line) that still holds a success style line
C15_Witness ==
    /\ pc = "done" /\ werr = None /\ abbr
    /\ \E o \in 1..Len(output) : output[o] = "style %a stroke:#0f0"
    /\ \A o \in 1..Len(output) : ~contains(output[o], "[")

\* a block whose ret is not its last instruction, rendered without a style
C15_WitnessRetNotLast ==
    /\ pc = "done" /\ werr = None /\ output # <<>>
    /\ \A o \in 1..Len(output) : ~starts_with(output[o], "style ")
    /\ \E i \in 1..Len(functions) : \E j \in 1..Len(functions[i].blocks) :
         LET b == functions[i].blocks[j]
         IN  /\ Len(b.instructions) = 2
             /\ EndsWith([b EXCEPT !.instructions = <<@[1]>>], "ret ")

\* the bodies of ls, one per header-shaped line read while no body is open:
\* the lines after it up to the closing line or the end of ls
RECURSIVE Bodies(_, _, _, _)
Bodies(ls, open, acc, cur) ==
    IF ls = <<>> THEN (IF open THEN Append(acc, cur) ELSE acc)
    ELSE IF open
         THEN IF ls[1] = "}" THEN Bodies(Tail(ls), FALSE, Append(acc, cur), <<>>)
              ELSE Bodies(Tail(ls), TRUE, acc, Append(cur, ls[1]))
    ELSE Bodies(Tail(ls), IsHeaderLine(ls[1]), acc, <<>>)

\* the block lists the parser holds, one per body: those returned and, while
\* a body is being read, the blocks finalized so far and the open one
BlockLists ==
    [i \in 1..Len(functions) |-> functions[i].blocks]
    \o (IF header # None THEN <<blocks \o current_block>> ELSE <<>>)

\* the names the label lines of a body give, in order
RECURSIVE LabelNames(_)
LabelNames(body) ==
    IF body = <<>> THEN <<>>
    ELSE (IF IsLabelLine(body[1]) THEN LabelPrefix(body[1]) ELSE <<>>)
         \o LabelNames(Tail(body))

\* a body whose first line is not a label line opens the implicit block
OpensImplicit(body) == body # <<>> /\ ~IsLabelLine(body[1])

(* C16: for every body, the blocks held for it (returned, or finalized plus *)
(* open while it is read) are one per label line of the body, in source    *)
(* order and named by it, preceded by one implicit block when the body     *)
(* starts with a line that is not a label line: none lost, none twice.     *)
C16_OneBlockPerLabel ==
    pc \in {"scan", "body"} =>
        LET bodies == Bodies(consumed, FALSE, <<>>, <<>>)
        IN  /\ Len(BlockLists) = Len(bodies)
            /\ \A i \in 1..Len(bodies) :
                 LET n  == IF OpensImplicit(bodies[i]) THEN 1 ELSE 0
                     ns == LabelNames(bodies[i])
                     bs == BlockLists[i]
                 IN  /\ Len(bs) = Len(ns) + n
                     /\ \A k \in 1..Len(ns) : bs[k + n].name = ns[k]

\* a returned body with an implicit block and two labelled ones
C16_Witness ==
    /\ pc = "scan" /\ eof
    /\ Len(functions) = 1 /\ Len(functions[1].blocks) = 3
    /\ functions[1].blocks[1].name = "%1"
    /\ functions[1].blocks[2].name = "a"

\* the instruction lists of a block list, concatenated in block order
RECURSIVE InstructionsOf(_)
InstructionsOf(bs) ==
    IF bs = <<>> THEN <<>> ELSE bs[1].instructions \o InstructionsOf(Tail(bs))

\* the lines of a body that are neither label lines nor blank
RECURSIVE InstructionLines(_)
InstructionLines(body) ==
    IF body = <<>> THEN <<>>
    ELSE (IF IsLabelLine(body[1]) \/ IsBlank(body[1]) THEN <<>> ELSE <<body[1]>>)
         \o InstructionLines(Tail(body))

(* C17: for every body, the instruction lists of its blocks concatenated   *)
(* in block order are exactly the body's lines that are neither label      *)
(* lines nor blank, verbatim and in source order (the closing line ends    *)
(* the body); there is one block list per body, so a line outside every    *)
(* header-to-close span is in no block.                                    *)
C17_InstructionsCarriedVerbatim ==
    pc \in {"scan", "body"} =>
        LET bodies == Bodies(consumed, FALSE, <<>>, <<>>)
        IN  /\ Len(BlockLists) = Len(bodies)
            /\ \A i \in 1..Len(bodies) :
                 InstructionsOf(BlockLists[i]) = InstructionLines(bodies[i])

\* a line outside every body was skipped, while an indented instruction and a
\* blank line were read inside a body that was returned
C17_Witness ==
    /\ pc = "scan"
    /\ Len(functions) = 1
    /\ InstructionsOf(functions[1].blocks) = <<"  ret void">>
    /\ \E k \in 1..Len(consumed) : consumed[k] = ""
    /\ consumed[1] = "  ret void"

(* C18 as claimed: the first block of a body is there because the body     *)
(* starts with a label line or because instruction text precedes the first  *)
(* label: an implicit entry block holds at least one instruction, and a     *)
(* body whose lines before the first label are all blank has exactly one    *)
(* block per label line.                                                    *)
C18_ImplicitBlockHoldsInstruction ==
    pc \in {"scan", "body"} =>
        LET bodies == Bodies(consumed, FALSE, <<>>, <<>>)
        IN  \A i \in 1..Len(bodies) :
              i <= Len(BlockLists) =>
                LET bs == BlockLists[i]
                IN  /\ (OpensImplicit(bodies[i]) /\ bs # <<>>)
                           => bs[1].instructions # <<>>
                    /\ (\A k \in 1..Len(bodies[i]) :
                            IsBlank(bodies[i][k]) \/ IsLabelLine(bodies[i][k]))
                           => Len(bs) = Len(LabelNames(bodies[i]))

(* C20 as claimed: no predecessors list holds the empty name, and no edge   *)
(* line is rendered with an empty source node.                              *)
C20_NoEmptyPredecessor ==
    /\ \A b \in AllBlocks : \A k \in 1..Len(b.predecessors) :
           b.predecessors[k] # ""
    /\ \A o \in 1..Len(output) : ~starts_with(output[o], "\t -->")

\* the stage-boundary marker occurs somewhere in the line
HasMarker(line) ==
    \E i \in 1..Len(line) :
        i + 11 <= Len(line) /\ SubSeq(line, i, i + 11) = " Dump After "

\* the files of a directory, concatenated in index order
RECURSIVE Concatenated(_)
Concatenated(dir) ==
    IF dir = <<>> THEN <<>> ELSE dir[1] \o Concatenated(Tail(dir))

(* C19: while nothing has failed, the output files concatenated in index    *)
(* order are the lines read so far, in order, so each line is in exactly    *)
(* one file; file 0 holds the lines before the first marker line; every     *)
(* later file starts with a marker line and holds no other one; and when    *)
(* main returns Ok the lines read are the whole input.                      *)
C19_SplitterPartitionsInput ==
    ppc \in {"loop", "done"} =>
        /\ Concatenated(output_dir) = dump
        /\ Len(output_dir) =
               1 + Cardinality({k \in 1..Len(dump) : HasMarker(dump[k])})
        /\ \A k \in 1..Len(output_dir[1]) : ~HasMarker(output_dir[1][k])
        /\ \A n \in 2..Len(output_dir) :
               /\ output_dir[n] # <<>>
               /\ HasMarker(output_dir[n][1])
               /\ \A k \in 2..Len(output_dir[n]) : ~HasMarker(output_dir[n][k])
        /\ output_file = Some(file_count) /\ file_count = Len(output_dir) - 1

\* a log split in three: lines before the first marker, a stage of two lines
\* and a stage that is its marker line alone
C19_Witness ==
    /\ ppc = "done"
    /\ Len(output_dir) = 3
    /\ output_dir[1] = <<"Dump After">>
    /\ Len(output_dir[2]) = 2
    /\ output_dir[3] = <<"; *** IR Dump After A ***">>

====
